---- MODULE Spec2Model ----
(***************************************************************************)
(* Model of the event/render loop of src/src/main.rs: one action per arm   *)
(* of the event match inside the closure handed to event_loop.run, each    *)
(* followed by the rebuild block that ends every closure invocation.       *)
(***************************************************************************)
EXTENDS Integers, Sequences, FiniteSets, TLC

\* ---------------------------------------------------------------- bounds
MaxRebuilds == 3
MaxFrames == 2

\* ------------------------------------------------------ program constants
DEFAULT_WINDOW_WIDTH == 2048
DEFAULT_WINDOW_HEIGHT == 2048
sample_count == 8

\* Sizes the windowing system reports (PhysicalSize<u32>): the default size,
\* a smaller window, and a window minimised along either axis.
Sizes ==
    { [width |-> DEFAULT_WINDOW_WIDTH, height |-> DEFAULT_WINDOW_HEIGHT],
      [width |-> 800, height |-> 600],
      [width |-> 0, height |-> 600],
      [width |-> 800, height |-> 0] }

PositiveSizes == { s \in Sizes : s.width > 0 /\ s.height > 0 }

\* Results of SwapChain::get_current_frame(): Ok(frame) or a SwapChainError.
AcquireErrors == { "Timeout", "Outdated", "Lost", "OutOfMemory" }

AcquireResults == { "Ok" } \cup AcquireErrors

VARIABLES
    window_size,          \* window.inner_size()
    swap_chain_desc,      \* wgpu::SwapChainDescriptor
    swap_chain,           \* the chain held by the variable swap_chain
    multisample_texture,  \* the Texture held by multisample_texture
    live_chains,          \* chains created on window_surface and not dropped
    created,              \* chains and textures the latest invocation (or
                          \* startup) created on device, in creation order
    rebuild_swapchain,    \* the closure's local flag when its invocation ended
    rebuilds,             \* number of times "Rebuilding swap chain" ran
    rebuilds_since_frame, \* of which since the last submitted frame
    queue,                \* command buffers handed to queue.submit, in order
    event,                \* the event of the latest closure invocation
    control_flow,         \* *control_flow
    status                \* "running", "exited" or "panicked"

vars == << window_size, swap_chain_desc, swap_chain, multisample_texture,
           live_chains, created, rebuild_swapchain, rebuilds,
           rebuilds_since_frame, queue, event, control_flow, status >>

\* ------------------------------------------------------------ constructors

\* Faulty variant: the extent is taken from the chain about to be replaced.
window_extent_stale(desc, chain) ==
    [width |-> chain.width, height |-> chain.height, depth |-> 1]

\* The Extent3d computed from the descriptor (lines 108-112 and 201-205).
window_extent(desc, chain) ==
    [width |-> desc.width, height |-> desc.height, depth |-> 1]

\* Faulty variant: width and height are exchanged.
create_swap_chain_transposed(id, desc) ==
    [id |-> id, usage |-> desc.usage, format |-> desc.format,
     width |-> desc.height, height |-> desc.width,
     present_mode |-> desc.present_mode]

\* device.create_swap_chain(&window_surface, &swap_chain_desc): the chain is
\* configured from the descriptor; id tells one created chain from another.
create_swap_chain(id, desc) ==
    [id |-> id, usage |-> desc.usage, format |-> desc.format,
     width |-> desc.width, height |-> desc.height,
     present_mode |-> desc.present_mode]

\* Texture::new keeps the descriptor (label dropped), the texture, its view.
TextureNew(id, descriptor) ==
    [id |-> id,
     descriptor |-> [label |-> "None",
                     size |-> descriptor.size,
                     mip_level_count |-> descriptor.mip_level_count,
                     sample_count |-> descriptor.sample_count,
                     dimension |-> descriptor.dimension,
                     format |-> descriptor.format,
                     usage |-> descriptor.usage]]

\* Faulty variant: the sample count asked for is ignored.
create_multisampled_framebuffer_single_sample(id, size, samples, format) ==
    TextureNew(id,
        [size |-> [width |-> size.width, height |-> size.height, depth |-> 1],
         mip_level_count |-> 1,
         sample_count |-> 1,
         dimension |-> "D2",
         format |-> format,
         usage |-> "RENDER_ATTACHMENT",
         label |-> "MSAA Framebuffer"])

create_multisampled_framebuffer(id, size, samples, format) ==
    TextureNew(id,
        [size |-> [width |-> size.width, height |-> size.height, depth |-> 1],
         mip_level_count |-> 1,
         sample_count |-> samples,
         dimension |-> "D2",
         format |-> format,
         usage |-> "RENDER_ATTACHMENT",
         label |-> "MSAA Framebuffer"])

\* Faulty variant: the previous chain is kept alive.
AssignSwapChainLeak(live, old, new) == live \cup {new.id}

\* Assigning to swap_chain drops the chain the variable held before.
AssignSwapChain(live, old, new) == (live \ {old.id}) \cup {new.id}

\* What device.create_swap_chain and device.create_texture were asked for.
CreatedChain(chain) ==
    [kind |-> "swap_chain", id |-> chain.id, width |-> chain.width,
     height |-> chain.height, format |-> chain.format]

CreatedTexture(tex) ==
    [kind |-> "texture", id |-> tex.id,
     width |-> tex.descriptor.size.width,
     height |-> tex.descriptor.size.height,
     format |-> tex.descriptor.format]

\* ------------------------------------------------------------------- views
NoView ==
    [kind |-> "None", id |-> 0, frame |-> 0, width |-> 0, height |-> 0,
     format |-> "None", sample_count |-> 0]

\* multisample_texture.view: the default view over the whole texture.
MultisampleView(tex) ==
    [kind |-> "multisample", id |-> tex.id, frame |-> 0,
     width |-> tex.descriptor.size.width,
     height |-> tex.descriptor.size.height,
     format |-> tex.descriptor.format,
     sample_count |-> tex.descriptor.sample_count]

\* Faulty variant: the view acquired for the first frame is handed out again.
get_current_frame_cached(chain, n) ==
    [kind |-> "frame", id |-> chain.id, frame |-> 1,
     width |-> chain.width, height |-> chain.height,
     format |-> chain.format, sample_count |-> 1]

\* swapchain_output.output.view: the view of the n-th acquired image, which
\* has the extent and format the chain was configured with.
get_current_frame(chain, n) ==
    [kind |-> "frame", id |-> chain.id, frame |-> n,
     width |-> chain.width, height |-> chain.height,
     format |-> chain.format, sample_count |-> 1]

\* ------------------------------------------------------------ render passes
PassA(multisample_target) ==
    [label |-> "some msaa pass", attachment |-> multisample_target,
     load |-> "Clear", store |-> TRUE, resolve_target |-> NoView]

PassB(multisample_target, framebuffer_target) ==
    [label |-> "resolve pass pass", attachment |-> multisample_target,
     load |-> "Load", store |-> TRUE, resolve_target |-> framebuffer_target]

PassC(framebuffer_target) ==
    [label |-> "non-msaa pass", attachment |-> framebuffer_target,
     load |-> "Load", store |-> TRUE, resolve_target |-> NoView]

\* Faulty variant: the resolve pass is recorded before the clear pass.
FrameEncoderSwapped(multisample_target, framebuffer_target) ==
    << PassB(multisample_target, framebuffer_target),
       PassA(multisample_target),
       PassC(framebuffer_target) >>

\* The frame encoder: three begin_render_pass calls, then finish().
FrameEncoder(multisample_target, framebuffer_target) ==
    << PassA(multisample_target),
       PassB(multisample_target, framebuffer_target),
       PassC(framebuffer_target) >>

\* The init encoder records nothing before finish().
InitEncoder == << >>

\* Faulty variant: the command buffer overtakes the ones submitted before.
SubmitFirst(q, cb) == << cb >> \o q

\* queue.submit(std::iter::once(encoder.finish()))
Submit(q, cb) == Append(q, cb)

\* -------------------------------------------------------------------- Init
Init ==
    \E size \in PositiveSizes :
        /\ window_size = size
        /\ swap_chain_desc =
               [usage |-> "RENDER_ATTACHMENT", format |-> "Bgra8Unorm",
                width |-> size.width, height |-> size.height,
                present_mode |-> "Fifo"]
        /\ swap_chain = create_swap_chain(0, swap_chain_desc)
        /\ multisample_texture =
               create_multisampled_framebuffer(0,
                   window_extent(swap_chain_desc, swap_chain),
                   sample_count, swap_chain_desc.format)
        /\ live_chains = {0}
        /\ created = << CreatedChain(swap_chain),
                        CreatedTexture(multisample_texture) >>
        /\ rebuild_swapchain = FALSE
        /\ rebuilds = 0
        /\ rebuilds_since_frame = 0
        /\ queue = Submit(<< >>, InitEncoder)
        /\ event = [kind |-> "None", size |-> size, frame |-> "None"]
        /\ control_flow = "Poll"
        /\ status = "running"

\* ------------------------------------------------ the end of the closure
\* Faulty variant: only the target is rebuilt, the chain is kept.
RebuildBlockTextureOnly(flag, desc, since) ==
    /\ rebuild_swapchain' = flag
    /\ IF flag
       THEN /\ UNCHANGED << swap_chain, live_chains >>
            /\ multisample_texture' =
                   create_multisampled_framebuffer(rebuilds + 1,
                       window_extent(desc, swap_chain),
                       sample_count, desc.format)
            /\ created' = << CreatedTexture(multisample_texture') >>
            /\ rebuilds' = rebuilds + 1
            /\ rebuilds_since_frame' = since + 1
       ELSE /\ UNCHANGED << swap_chain, live_chains, multisample_texture,
                            rebuilds >>
            /\ created' = << >>
            /\ rebuilds_since_frame' = since

\* Faulty variant: the target is created before the chain.
RebuildBlockTargetFirst(flag, desc, since) ==
    /\ rebuild_swapchain' = flag
    /\ IF flag
       THEN LET new == create_swap_chain(rebuilds + 1, desc) IN
            /\ swap_chain' = new
            /\ live_chains' = AssignSwapChain(live_chains, swap_chain, new)
            /\ multisample_texture' =
                   create_multisampled_framebuffer(rebuilds + 1,
                       window_extent(desc, swap_chain),
                       sample_count, desc.format)
            /\ created' = << CreatedTexture(multisample_texture'),
                            CreatedChain(new) >>
            /\ rebuilds' = rebuilds + 1
            /\ rebuilds_since_frame' = since + 1
       ELSE /\ UNCHANGED << swap_chain, live_chains, multisample_texture,
                            rebuilds >>
            /\ created' = << >>
            /\ rebuilds_since_frame' = since

\* Lines 201-216: what every closure invocation ends with.  flag is the
\* value of rebuild_swapchain after the match, desc the descriptor after the
\* match, since the number of rebuilds since the last frame after the match.
RebuildBlock(flag, desc, since) ==
    /\ rebuild_swapchain' = flag
    /\ IF flag
       THEN LET new == create_swap_chain(rebuilds + 1, desc) IN
            /\ swap_chain' = new
            /\ live_chains' = AssignSwapChain(live_chains, swap_chain, new)
            /\ multisample_texture' =
                   create_multisampled_framebuffer(rebuilds + 1,
                       window_extent(desc, swap_chain),
                       sample_count, desc.format)
            /\ created' = << CreatedChain(new),
                            CreatedTexture(multisample_texture') >>
            /\ rebuilds' = rebuilds + 1
            /\ rebuilds_since_frame' = since + 1
       ELSE /\ UNCHANGED << swap_chain, live_chains, multisample_texture,
                            rebuilds >>
            /\ created' = << >>
            /\ rebuilds_since_frame' = since

\* An event record: its kind, the size it carries (Resized, ScaleFactorChanged)
\* and, for RedrawRequested, what get_current_frame() returned.
Event(kind, size, frame) == [kind |-> kind, size |-> size, frame |-> frame]

\* ----------------------------------------------------------------- actions

\* Faulty variant: the arm requests a rebuild.
MainEventsClearedRebuilds ==
    /\ status = "running"
    /\ rebuilds < MaxRebuilds
    /\ event' = Event("MainEventsCleared", window_size, "None")
    /\ RebuildBlock(TRUE, swap_chain_desc, rebuilds_since_frame)
    /\ UNCHANGED << window_size, swap_chain_desc, queue, control_flow, status >>

\* Event::MainEventsCleared => {}
MainEventsCleared ==
    /\ status = "running"
    /\ event' = Event("MainEventsCleared", window_size, "None")
    /\ RebuildBlock(FALSE, swap_chain_desc, rebuilds_since_frame)
    /\ UNCHANGED << window_size, swap_chain_desc, queue, control_flow, status >>

\* Faulty variant: the close arm also requests a rebuild.
CloseOrDestroyRebuilds(kind) ==
    /\ status = "running"
    /\ rebuilds < MaxRebuilds
    /\ event' = Event(kind, window_size, "None")
    /\ control_flow' = "Exit"
    /\ RebuildBlock(TRUE, swap_chain_desc, rebuilds_since_frame)
    /\ UNCHANGED << window_size, swap_chain_desc, queue, status >>

\* WindowEvent::Destroyed | WindowEvent::CloseRequested
CloseOrDestroy(kind) ==
    /\ status = "running"
    /\ event' = Event(kind, window_size, "None")
    /\ control_flow' = "Exit"
    /\ RebuildBlock(FALSE, swap_chain_desc, rebuilds_since_frame)
    /\ UNCHANGED << window_size, swap_chain_desc, queue, status >>

\* Faulty variant: the size is recorded but no rebuild is requested.
ResizedNoFlag(size) ==
    /\ status = "running"
    /\ rebuilds < MaxRebuilds
    /\ event' = Event("Resized", size, "None")
    /\ window_size' = size
    /\ swap_chain_desc' =
           [swap_chain_desc EXCEPT !.width = size.width,
                                   !.height = size.height]
    /\ RebuildBlock(FALSE, swap_chain_desc', rebuilds_since_frame)
    /\ UNCHANGED << queue, control_flow, status >>

\* Faulty variant: a rebuild is requested only when the size recorded before
\* the event had a positive area.
ResizedStaleGuard(size) ==
    /\ status = "running"
    /\ rebuilds < MaxRebuilds
    /\ event' = Event("Resized", size, "None")
    /\ window_size' = size
    /\ swap_chain_desc' =
           [swap_chain_desc EXCEPT !.width = size.width,
                                   !.height = size.height]
    /\ RebuildBlock(swap_chain_desc.width > 0 /\ swap_chain_desc.height > 0,
                    swap_chain_desc', rebuilds_since_frame)
    /\ UNCHANGED << queue, control_flow, status >>

\* WindowEvent::Resized(size): the window has the size the event reports.
Resized(size) ==
    /\ status = "running"
    /\ rebuilds < MaxRebuilds
    /\ event' = Event("Resized", size, "None")
    /\ window_size' = size
    /\ swap_chain_desc' =
           [swap_chain_desc EXCEPT !.width = size.width,
                                   !.height = size.height]
    /\ RebuildBlock(TRUE, swap_chain_desc', rebuilds_since_frame)
    /\ UNCHANGED << queue, control_flow, status >>

\* Faulty variant: the density change requests no rebuild.
ScaleFactorChangedNoFlag(new_inner_size) ==
    /\ status = "running"
    /\ rebuilds < MaxRebuilds
    /\ event' = Event("ScaleFactorChanged", new_inner_size, "None")
    /\ window_size' = new_inner_size
    /\ RebuildBlock(FALSE, swap_chain_desc, rebuilds_since_frame)
    /\ UNCHANGED << swap_chain_desc, queue, control_flow, status >>

\* WindowEvent::ScaleFactorChanged { new_inner_size, .. }: the window takes
\* the size new_inner_size points to; the handler reads none of the fields.
ScaleFactorChanged(new_inner_size) ==
    /\ status = "running"
    /\ rebuilds < MaxRebuilds
    /\ event' = Event("ScaleFactorChanged", new_inner_size, "None")
    /\ window_size' = new_inner_size
    /\ RebuildBlock(TRUE, swap_chain_desc, rebuilds_since_frame)
    /\ UNCHANGED << swap_chain_desc, queue, control_flow, status >>

\* Any other WindowEvent: the inner arm _ => {}
OtherWindowEvent ==
    /\ status = "running"
    /\ event' = Event("OtherWindowEvent", window_size, "None")
    /\ RebuildBlock(FALSE, swap_chain_desc, rebuilds_since_frame)
    /\ UNCHANGED << window_size, swap_chain_desc, queue, control_flow, status >>

\* Event::RedrawRequested(_): get_current_frame().unwrap() panics on Err and
\* the closure is left at line 148; on Ok the three passes are recorded and
\* the finished encoder is submitted.
RedrawRequested(frame) ==
    /\ status = "running"
    /\ Len(queue) <= MaxFrames
    /\ event' = Event("RedrawRequested", window_size, frame)
    /\ IF frame = "Ok"
       THEN LET framebuffer_target == get_current_frame(swap_chain, Len(queue))
                multisample_target == MultisampleView(multisample_texture)
            IN  /\ queue' = Submit(queue,
                        FrameEncoder(multisample_target, framebuffer_target))
                /\ RebuildBlock(FALSE, swap_chain_desc, 0)
                /\ UNCHANGED status
       ELSE /\ status' = "panicked"
            /\ rebuild_swapchain' = FALSE
            /\ created' = << >>
            /\ UNCHANGED << queue, swap_chain, live_chains,
                            multisample_texture, rebuilds,
                            rebuilds_since_frame >>
    /\ UNCHANGED << window_size, swap_chain_desc, control_flow >>

\* Any other Event while the loop runs (NewEvents, RedrawEventsCleared, ...):
\* the outer arm _ => {}
OtherEvent ==
    /\ status = "running"
    /\ event' = Event("OtherEvent", window_size, "None")
    /\ RebuildBlock(FALSE, swap_chain_desc, rebuilds_since_frame)
    /\ UNCHANGED << window_size, swap_chain_desc, queue, control_flow, status >>

\* Event::LoopDestroyed, the last event once *control_flow is Exit: the outer
\* arm _ => {}, after which event_loop.run ends the process.
LoopDestroyed ==
    /\ status = "running"
    /\ control_flow = "Exit"
    /\ event' = Event("LoopDestroyed", window_size, "None")
    /\ RebuildBlock(FALSE, swap_chain_desc, rebuilds_since_frame)
    /\ status' = "exited"
    /\ UNCHANGED << window_size, swap_chain_desc, queue, control_flow >>

Next ==
    \/ MainEventsCleared
    \/ \E kind \in { "Destroyed", "CloseRequested" } : CloseOrDestroy(kind)
    \/ \E size \in Sizes : Resized(size)
    \/ \E new_inner_size \in PositiveSizes : ScaleFactorChanged(new_inner_size)
    \/ OtherWindowEvent
    \/ \E frame \in AcquireResults : RedrawRequested(frame)
    \/ OtherEvent
    \/ LoopDestroyed

Spec == Init /\ [][Next]_vars

\* ------------------------------------------------------------- properties
GeometryKinds == { "Resized", "ScaleFactorChanged" }

CloseKinds == { "Destroyed", "CloseRequested" }

ZeroArea(size) == size.width = 0 \/ size.height = 0

TargetSize == multisample_texture.descriptor.size

\* The steps below are told apart by event', which every closure invocation
\* sets to the event it handles.

\* C1: in every state between two closure invocations the offscreen target's
\* width and height equal those of swap_chain_desc.
C1_TargetMatchesConfig ==
    /\ TargetSize.width = swap_chain_desc.width
    /\ TargetSize.height = swap_chain_desc.height

\* C1 witness: after a second resize, to 800x600, the target is 800x600.
C1_Witness ==
    /\ event.kind = "Resized"
    /\ rebuilds >= 2
    /\ swap_chain_desc.width = 800
    /\ TargetSize.width = 800
    /\ TargetSize.height = 600

\* C2: every step that renders a frame acquires its image from the chain held
\* by swap_chain, that chain has the width, height and format of
\* swap_chain_desc, and so have the acquired image and the multisample view
\* the frame's passes use.
C2_FrameUsesCurrentConfig ==
    [][Len(queue') > Len(queue) =>
        LET cb == queue'[Len(queue')]
            image == cb[3].attachment
            target == cb[1].attachment
        IN  /\ image.kind = "frame"
            /\ image.id = swap_chain.id
            /\ swap_chain.width = swap_chain_desc.width
            /\ swap_chain.height = swap_chain_desc.height
            /\ swap_chain.format = swap_chain_desc.format
            /\ image.width = swap_chain_desc.width
            /\ image.height = swap_chain_desc.height
            /\ image.format = swap_chain_desc.format
            /\ target.kind = "multisample"
            /\ target.width = swap_chain_desc.width
            /\ target.height = swap_chain_desc.height]_vars

\* C2 witness: one resize to 800x600, then one frame whose acquired image and
\* multisample view are both 800x600.
C2_Witness ==
    /\ rebuilds = 1
    /\ Len(queue) = 2
    /\ swap_chain_desc.width = 800
    /\ swap_chain_desc.height = 600
    /\ queue[2][3].attachment.width = 800
    /\ queue[2][3].attachment.height = 600
    /\ queue[2][1].attachment.width = 800
    /\ queue[2][1].attachment.height = 600
    /\ queue[2][1].attachment.sample_count = 8

\* C3: every command buffer submitted for a frame holds exactly the three
\* passes A, B, C in that order: A clears and stores the multisample view with
\* no resolve target, B loads and stores the same view and resolves into the
\* image acquired for that frame, C loads and stores that image view with no
\* resolve target.
C3_PassOrder ==
    \A i \in 2..Len(queue) :
        LET cb == queue[i] IN
        /\ Len(cb) = 3
        /\ cb[1].attachment.kind = "multisample"
        /\ cb[1].load = "Clear"
        /\ cb[1].store
        /\ cb[1].resolve_target = NoView
        /\ cb[2].attachment = cb[1].attachment
        /\ cb[2].load = "Load"
        /\ cb[2].store
        /\ cb[2].resolve_target.kind = "frame"
        /\ cb[2].resolve_target.frame = i - 1
        /\ cb[3].attachment = cb[2].resolve_target
        /\ cb[3].load = "Load"
        /\ cb[3].store
        /\ cb[3].resolve_target = NoView

\* C3 witness: two frames have been submitted.
C3_Witness ==
    /\ Len(queue) = 3
    /\ Len(queue[3]) = 3
    /\ event.kind = "RedrawRequested"

C5_ZeroAreaNoRebuild ==
    (event.kind = "Resized" /\ ZeroArea(event.size)) =>
        /\ ~rebuild_swapchain
        /\ swap_chain.width > 0 /\ swap_chain.height > 0
        /\ TargetSize.width > 0 /\ TargetSize.height > 0

\* C6 as claimed: after a redraw whose image acquisition failed with a
\* recoverable surface error, nothing was submitted for it, the loop is still
\* running and a rebuild is pending.
C6_AcquireErrorRecovers ==
    (event.kind = "RedrawRequested"
        /\ event.frame \in { "Lost", "Timeout", "Outdated" }) =>
        /\ status = "running"
        /\ rebuild_swapchain

\* C7: handling a close or destroy signal sets *control_flow to Exit and
\* leaves the chain, the set of live chains, the target and swap_chain_desc
\* as they were; no rebuild is performed.
C7_CloseRebuildsNothing ==
    [][event'.kind \in CloseKinds =>
        /\ control_flow' = "Exit"
        /\ ~rebuild_swapchain'
        /\ rebuilds' = rebuilds
        /\ swap_chain' = swap_chain
        /\ live_chains' = live_chains
        /\ multisample_texture' = multisample_texture
        /\ swap_chain_desc' = swap_chain_desc]_vars

\* C7 witness: a close signal has been handled after an earlier geometry
\* change had rebuilt the chain.
C7_Witness ==
    /\ event.kind = "CloseRequested"
    /\ control_flow = "Exit"
    /\ rebuilds >= 1
    /\ swap_chain.id = rebuilds

ChainObservable(chain) ==
    [width |-> chain.width, height |-> chain.height, format |-> chain.format]

TargetObservable(tex) ==
    [width |-> tex.descriptor.size.width,
     height |-> tex.descriptor.size.height,
     format |-> tex.descriptor.format,
     sample_count |-> tex.descriptor.sample_count]

\* C9: when the invocation before this one performed a rebuild and this one
\* performs another with swap_chain_desc unchanged, the chain and the target
\* have the same width, height, format and sample count after the second
\* rebuild as after the first.
C9_RebuildIdempotent ==
    [][(rebuild_swapchain /\ rebuilds' = rebuilds + 1
            /\ swap_chain_desc' = swap_chain_desc) =>
        /\ ChainObservable(swap_chain') = ChainObservable(swap_chain)
        /\ TargetObservable(multisample_texture') =
               TargetObservable(multisample_texture)
        /\ swap_chain'.id # swap_chain.id
        /\ multisample_texture'.id # multisample_texture.id]_vars

\* C9 witness: a density change has rebuilt chain and target a second time in
\* a row for an 800x600 swap_chain_desc.
C9_Witness ==
    /\ event.kind = "ScaleFactorChanged"
    /\ rebuild_swapchain
    /\ rebuilds_since_frame >= 2
    /\ multisample_texture.id = rebuilds
    /\ TargetSize.width = 800
    /\ swap_chain.height = 600

C11_RebuildReplacesBoth ==
    [][(rebuilds' # rebuilds \/ swap_chain' # swap_chain
            \/ multisample_texture' # multisample_texture) =>
        /\ swap_chain'.id # swap_chain.id
        /\ multisample_texture'.id # multisample_texture.id
        /\ Len(created') = 2
        /\ created'[1] = CreatedChain(swap_chain')
        /\ created'[2] = CreatedTexture(multisample_texture')
        /\ \A k \in 1..2 :
              /\ created'[k].width = swap_chain_desc'.width
              /\ created'[k].height = swap_chain_desc'.height
              /\ created'[k].format = swap_chain_desc'.format]_vars

\* C11 witness: a resize to 800x600 has created a chain and then a target,
\* both 800x600.
C11_Witness ==
    /\ rebuilds >= 1
    /\ event.kind = "Resized"
    /\ Len(created) = 2
    /\ created[1].kind = "swap_chain" /\ created[1].width = 800
    /\ created[2].kind = "texture" /\ created[2].height = 600
    /\ created[1].id = rebuilds /\ created[2].id = rebuilds

\* C12 as claimed: swap_chain_desc has a positive width and a positive height
\* in every reachable state.
C12_ConfigPositive ==
    swap_chain_desc.width > 0 /\ swap_chain_desc.height > 0

\* C13: in every reachable state the target has 8 samples and the format of
\* swap_chain_desc.
C13_SampleCountAndFormat ==
    /\ multisample_texture.descriptor.sample_count = 8
    /\ multisample_texture.descriptor.format = swap_chain_desc.format

\* C13 witness: the target has been rebuilt by a resize and by a density
\* change and has 8 samples.
C13_Witness ==
    /\ event.kind = "ScaleFactorChanged"
    /\ rebuilds >= 2
    /\ multisample_texture.id = rebuilds
    /\ TargetSize.width = 800
    /\ multisample_texture.descriptor.sample_count = 8
    /\ multisample_texture.descriptor.format = "Bgra8Unorm"

\* C14: once a geometry-change signal with a positive width and height has
\* been handled, the rebuild it asks for has been performed from the
\* swap_chain_desc of that moment, whatever sizes were reported before it (a
\* zero-area resize included); a resize leaves chain and target with the size
\* it reported.
C14_PositiveSignalRebuilt ==
    (event.kind \in GeometryKinds /\ ~ZeroArea(event.size)) =>
        /\ rebuild_swapchain
        /\ rebuilds >= 1
        /\ swap_chain.id = rebuilds
        /\ multisample_texture.id = rebuilds
        /\ swap_chain.width = swap_chain_desc.width
        /\ swap_chain.height = swap_chain_desc.height
        /\ TargetSize.width = swap_chain_desc.width
        /\ TargetSize.height = swap_chain_desc.height
        /\ event.kind = "Resized" =>
              /\ swap_chain.width = event.size.width
              /\ swap_chain.height = event.size.height
              /\ TargetSize.width = event.size.width
              /\ TargetSize.height = event.size.height

\* C14 witness: a resize back to the default size has been handled as the
\* third geometry-change signal and chain and target have that size.
C14_Witness ==
    /\ event.kind = "Resized"
    /\ event.size.width = DEFAULT_WINDOW_WIDTH
    /\ rebuilds = 3
    /\ rebuild_swapchain
    /\ swap_chain.id = 3
    /\ swap_chain.width = DEFAULT_WINDOW_WIDTH
    /\ TargetSize.height = DEFAULT_WINDOW_HEIGHT

\* C15: handling a density-change signal requests a rebuild and the same
\* invocation replaces both the chain and the target.
C15_ScaleFactorRebuilds ==
    [][event'.kind = "ScaleFactorChanged" =>
        /\ rebuild_swapchain'
        /\ rebuilds' = rebuilds + 1
        /\ swap_chain'.id = rebuilds'
        /\ swap_chain'.id # swap_chain.id
        /\ multisample_texture'.id = rebuilds'
        /\ multisample_texture'.id # multisample_texture.id
        /\ live_chains' = { swap_chain'.id }
        /\ Len(created') = 2]_vars

\* C15 witness: the first rebuild of a run was caused by a density change.
C15_Witness ==
    /\ event.kind = "ScaleFactorChanged"
    /\ rebuilds = 1
    /\ rebuild_swapchain
    /\ swap_chain.id = 1
    /\ multisample_texture.id = 1

\* C16 as claimed: in every reachable state the width and height of
\* swap_chain_desc are those of the window.
C16_ConfigMatchesWindow ==
    /\ swap_chain_desc.width = window_size.width
    /\ swap_chain_desc.height = window_size.height

\* C17: the image view that the resolve pass and the third pass of the n-th
\* frame use is the view acquired for the n-th frame, and no two frames use
\* the same view.
C17_FrameUsesOwnImage ==
    \A i \in 2..Len(queue) :
        /\ queue[i][2].resolve_target.kind = "frame"
        /\ queue[i][2].resolve_target.frame = i - 1
        /\ queue[i][3].attachment = queue[i][2].resolve_target
        /\ \A j \in 2..(i - 1) :
              /\ queue[j][2].resolve_target # queue[i][2].resolve_target
              /\ queue[j][3].attachment # queue[i][3].attachment

\* C17 witness: two frames have been rendered from the same chain.
C17_Witness ==
    /\ Len(queue) = 3
    /\ queue[2][2].resolve_target.id = queue[3][2].resolve_target.id
    /\ queue[2][2].resolve_target.frame = 1
    /\ queue[3][2].resolve_target.frame = 2

\* C18: an invocation that handles neither a resize nor a density change
\* leaves swap_chain_desc, the chain, the live chains and the target as they
\* were and creates no chain or texture.
C18_OnlyGeometryRebuilds ==
    [][event'.kind \notin GeometryKinds =>
        /\ swap_chain_desc' = swap_chain_desc
        /\ swap_chain' = swap_chain
        /\ live_chains' = live_chains
        /\ multisample_texture' = multisample_texture
        /\ rebuilds' = rebuilds
        /\ created' = << >>]_vars

\* C18 witness: a frame has been rendered after a rebuild and the chain and
\* target are still the rebuilt ones.
C18_Witness ==
    /\ event.kind = "RedrawRequested"
    /\ event.frame = "Ok"
    /\ rebuilds >= 1
    /\ ~rebuild_swapchain
    /\ swap_chain.id = rebuilds
    /\ multisample_texture.id = rebuilds
    /\ created = << >>

\* C19: a redraw that acquires an image appends exactly one command buffer,
\* that of its own frame, behind the ones already submitted; every other
\* invocation leaves the queue as it was.
C19_OneSubmitPerFrame ==
    [][IF event'.kind = "RedrawRequested" /\ event'.frame = "Ok"
       THEN /\ Len(queue') = Len(queue) + 1
            /\ SubSeq(queue', 1, Len(queue)) = queue
            /\ Len(queue'[Len(queue')]) = 3
            /\ queue'[Len(queue')][3].attachment.frame = Len(queue)
       ELSE queue' = queue]_vars

\* C19 witness: the init buffer and two frames are queued in the order they
\* were produced, a rebuild having happened meanwhile.
C19_Witness ==
    /\ Len(queue) = 3
    /\ queue[1] = << >>
    /\ queue[2][3].attachment.frame = 1
    /\ queue[3][3].attachment.frame = 2
    /\ rebuilds >= 1

====
